---- MODULE Spec2Model ----
(***************************************************************************)
(* Tree of Virtual Life: the node/edge stores over localStorage, the       *)
(* create-node dialog, and the UINode interaction state machine (tap,      *)
(* panel, objective toggle, drag), as wired by the two main programs of    *)
(* the repository (the edge-mode main and the water-overlay main).         *)
(*                                                                         *)
(* Conventions.                                                            *)
(*  - A node id "N00k" is represented by the number k (nextId builds the   *)
(*    text from the number with padStart, and reads it back with parseInt  *)
(*    of the digits).                                                      *)
(*  - A string is a tuple of one-character strings; Sp is a blank and Nl   *)
(*    a line feed.                                                         *)
(*  - A JS number that may be fractional or NaN (the difficulty) is a      *)
(*    record [nan, t] with t the value in tenths.                          *)
(*  - A localStorage item is a record tagged by k: "absent", "empty"       *)
(*    (the empty string), "garbage" (text JSON.parse rejects) or "json"    *)
(*    with the parsed value v.  A JS value is tagged by k as well:         *)
(*    "arr" (with rows), "null", "num", "obj", "str".                      *)
(*  - Positions are design coordinates, given in tenths of a unit (they    *)
(*    are fractional as soon as the tree is scaled).                       *)
(***************************************************************************)
EXTENDS Integers, Sequences, FiniteSets, TLC

VARIABLES
    lsNodes,        \* localStorage["tol_nodes_v1"]
    lsEdges,        \* localStorage["tol_edges_v1"]
    lsState,        \* localStorage["tol.node.v1." + id], per id
    nodes,          \* createNodeStore: let nodes
    edges,          \* createEdgeStore: let edges
    gen,            \* number of rebuildNodes runs so far (instance generation)
    insts,          \* UINode instances still reachable from an event source
    uiEdges,        \* main: let uiEdges
    edgeMode,       \* main: let edgeMode
    lastClickedId,  \* main: let lastClickedId
    cursor,         \* main: let cursorDesign
    dragKey,        \* UINode module: let DRAG_KEY_DOWN
    dialogs,        \* create-node dialogs that are open
    call,           \* outcome of the last store call / dialog resolution observed
    overlay,        \* window size, tree container transform, WaterFlowOverlay flows
    hist            \* history: store mutated, last drop per node, last edge-mode tap
                    \* since the mode was set, ids whose entry the program wrote,
                    \* ids removed by L and not joined by an edge of the user since

vars == <<lsNodes, lsEdges, lsState, nodes, edges, gen, insts, uiEdges,
          edgeMode, lastClickedId, cursor, dragKey, dialogs, call, overlay, hist>>

(***************************************************************************)
(* Bounds of the model                                                     *)
(***************************************************************************)
MaxId == 2          \* ids N001..N00<MaxId>: key K is not pressed beyond it
MaxGen == 3         \* rebuildNodes runs at most this often
MaxGenBusy == 2     \* the same, where nodes are dragged or panels are used
MaxBuilds == 2      \* panel builds in flight per panel
MaxDialogs == 1     \* create-node dialogs open at the same time
MaxEdges == 2       \* edges in the edge store
MaxLen == 3         \* length of a text typed into the dialog

(***************************************************************************)
(* Program constants                                                       *)
(***************************************************************************)
MaxDist == 40           \* removeNearest(..., maxDist = 40)
DifficultyMax == 33     \* Math.min(33, ...)
DESIGN_W == 5000
DESIGN_H == 7000

Ids == 1..MaxId
None == 0               \* null / undefined where an id or a position is expected

\* Design-space points the pointer visits and nodes are placed at: (0, 0) and
\* (30.4, 0.5)
Points == {<<0, 0>>, <<304, 5>>}

\* edgeMode: null (off), "linear", "curvy"
EdgeOff == "off"

Locked == "locked"
Available == "available"
Learned == "learned"

Sp == " "
Nl == "\n"

(***************************************************************************)
(* JS numbers (difficulty)                                                 *)
(***************************************************************************)
Num(t) == [nan |-> FALSE, t |-> t]
NaN == [nan |-> TRUE, t |-> 0]

\* Math.round: nearest integer, halves towards +infinity; NaN stays NaN
MathRound(n) == IF n.nan THEN NaN ELSE Num(((n.t + 5) \div 10) * 10)

\* Math.min / Math.max: NaN if either argument is NaN
MathMin(a, b) == IF a.nan \/ b.nan THEN NaN ELSE IF a.t <= b.t THEN a ELSE b
MathMax(a, b) == IF a.nan \/ b.nan THEN NaN ELSE IF a.t >= b.t THEN a ELSE b

IsIntIn0to33(n) == ~n.nan /\ n.t % 10 = 0 /\ n.t >= 0 /\ n.t <= DifficultyMax * 10

(***************************************************************************)
(* localStorage items and JSON                                             *)
(***************************************************************************)
Absent == [k |-> "absent"]
EmptyText == [k |-> "empty"]
Garbage == [k |-> "garbage"]
Json(v) == [k |-> "json", v |-> v]

JArr(rows) == [k |-> "arr", rows |-> rows]
JNull == [k |-> "null"]

\* the condition `raw ?` on a getItem result: null and "" are falsy
Truthy(raw) == raw.k \notin {"absent", "empty"}

\* JSON.parse: throws on text that is no JSON, else the value
ParseThrows(raw) == raw.k = "garbage"
ParseValue(raw) == raw.v

\* JSON.stringify of a store's value (save())
Stringify(v) == Json(v)

\* load(): try { nodes = raw ? JSON.parse(raw) : [] } catch { nodes = [] }
Load(raw) ==
    IF ~Truthy(raw) THEN JArr(<<>>)
    ELSE IF ParseThrows(raw) THEN JArr(<<>>)
    ELSE ParseValue(raw)
\* the catch clause lets no error out of load()
LoadThrowsNoCatch(raw) == Truthy(raw) /\ ParseThrows(raw)
LoadThrows(raw) == FALSE

(***************************************************************************)
(* createNodeStore                                                         *)
(***************************************************************************)
Row(id, x, y, status) == [id |-> id, x |-> x, y |-> y, status |-> status]

\* list(): nodes.slice() exists on arrays and on strings only
ListThrows(n) == n.k \notin {"arr", "str"}

RECURSIVE MaxIdOf(_)
MaxIdOf(rows) ==
    IF rows = <<>> THEN 0
    ELSE LET rest == MaxIdOf(Tail(rows))
         IN IF rest >= Head(rows).id THEN rest ELSE Head(rows).id

\* nextId(): nodes.reduce(max of the ids' digits, 0) + 1; reduce exists on arrays only
NextId(n) == MaxIdOf(n.rows) + 1

\* add(x, y, status): push {id: nextId(), x, y, status}; save()
AddThrows(n) == n.k # "arr"
AddedRow(n, x, y, status) == Row(NextId(n), x, y, status)
Add(n, x, y, status) == JArr(Append(n.rows, AddedRow(n, x, y, status)))

IndexOfId(rows, id) ==
    IF \E i \in 1..Len(rows) : rows[i].id = id
    THEN CHOOSE i \in 1..Len(rows) :
            rows[i].id = id /\ \A j \in 1..(i - 1) : rows[j].id # id
    ELSE 0

\* update(id, x, y): the first row with that id gets x, y (then save())
UpdateHits(n, id) == IndexOfId(n.rows, id) # 0
Update(n, id, x, y) ==
    IF UpdateHits(n, id)
    THEN JArr([n.rows EXCEPT ![IndexOfId(n.rows, id)].x = x,
                             ![IndexOfId(n.rows, id)].y = y])
    ELSE n

\* Math.hypot(dx, dy), compared through its square
Dist2(ax, ay, bx, by) == (ax - bx) * (ax - bx) + (ay - by) * (ay - by)

\* the loop of removeNearest: the first index of least distance
NearestIndex(rows, x, y) ==
    CHOOSE i \in 1..Len(rows) :
        /\ \A j \in 1..Len(rows) :
              Dist2(rows[i].x, rows[i].y, x, y) <= Dist2(rows[j].x, rows[j].y, x, y)
        /\ \A j \in 1..(i - 1) :
              Dist2(rows[j].x, rows[j].y, x, y) > Dist2(rows[i].x, rows[i].y, x, y)


\* removeNearest(x, y, maxDist): `nodes.length` throws on null only
RemoveNearestThrows(n) == n.k = "null"
RemoveNearestHit(n, x, y) ==
    /\ n.k = "arr"
    /\ n.rows # <<>>
    /\ Dist2(n.rows[NearestIndex(n.rows, x, y)].x,
             n.rows[NearestIndex(n.rows, x, y)].y, x, y) <= (MaxDist * 10) * (MaxDist * 10)
RemovedId(n, x, y) ==
    IF RemoveNearestHit(n, x, y) THEN n.rows[NearestIndex(n.rows, x, y)].id ELSE None
RemoveNearest(n, x, y) ==
    IF RemoveNearestHit(n, x, y)
    THEN LET i == NearestIndex(n.rows, x, y)
         IN JArr(SubSeq(n.rows, 1, i - 1) \o SubSeq(n.rows, i + 1, Len(n.rows)))
    ELSE n

(***************************************************************************)
(* createEdgeStore                                                         *)
(***************************************************************************)
Edge(from, to, kind) == [from |-> from, to |-> to, kind |-> kind]

\* e.kind ?? "curvy" (NoKind: the edge record has no kind)
NoKind == "nokind"
KindOf(e) == IF e.kind = NoKind THEN "curvy" ELSE e.kind

\* add(from, to, kind): no self loop, no second edge of the same kind
EdgeAddSkips(es, from, to, kind) ==
    \/ from = to
    \/ \E i \in 1..Len(es.rows) :
          es.rows[i].from = from /\ es.rows[i].to = to /\ KindOf(es.rows[i]) = kind
EdgeAdd(es, from, to, kind) ==
    IF EdgeAddSkips(es, from, to, kind) THEN es
    ELSE JArr(Append(es.rows, Edge(from, to, kind)))

\* list() of the edge store: edges.slice()
EdgeListThrows(es) == es.k \notin {"arr", "str"}

(***************************************************************************)
(* Idle values of the state the store-level and dialog-level               *)
(* specifications leave alone                                              *)
(***************************************************************************)
NoCall == [op |-> "none", threw |-> FALSE, ret |-> JNull]
NoDrop == <<>>
NoOverlay == [win |-> <<0, 0>>, tree |-> [s |-> 0, x |-> 0, y |-> 0], flows |-> <<>>]
NoHist == [mutated |-> FALSE, dropped |-> [i \in Ids |-> NoDrop], lastTap |-> None,
           written |-> {}, gone |-> {}]

(***************************************************************************)
(* SpecStore: the two stores created over arbitrary storage content and    *)
(* then called through their API                                           *)
(***************************************************************************)
RawNodeTexts ==
    {Absent, EmptyText, Garbage, Json(JNull),
     Json([k |-> "num"]), Json([k |-> "obj"]), Json([k |-> "str"])}
        \cup {Json(JArr(r)) : r \in
                 {<<>>, <<Row(1, 0, 0, Available)>>,
                  <<Row(1, 0, 0, Available), Row(2, 0, 500, Locked)>>,
                  <<Row(1, 300, 0, Available), Row(2, 300, 500, Locked)>>}}
RawEdgeTexts ==
    {Absent, Garbage, Json(JNull)}
        \cup {Json(JArr(r)) : r \in {<<>>, <<Edge(1, 2, "linear")>>}}

InitStore ==
    /\ lsNodes \in RawNodeTexts
    /\ lsEdges \in RawEdgeTexts
    /\ lsState = [i \in Ids |-> Absent]
    /\ nodes = Load(lsNodes)
    /\ edges = Load(lsEdges)
    /\ call = [op |-> "create", threw |-> LoadThrows(lsNodes) \/ LoadThrows(lsEdges),
               ret |-> JNull]
    /\ hist = NoHist
    /\ gen = 0 /\ insts = {} /\ uiEdges = <<>>
    /\ edgeMode = EdgeOff /\ lastClickedId = None
    /\ cursor = <<(DESIGN_W * 10) \div 2, (DESIGN_H * 10) \div 2>>
    /\ dragKey = FALSE /\ dialogs = <<>>
    /\ overlay = NoOverlay

appIdle == <<lsState, gen, insts, uiEdges, edgeMode, lastClickedId, cursor, dragKey, dialogs,
             overlay>>

\* nodeStore.list()
StoreList ==
    /\ call' = [op |-> "list", threw |-> ListThrows(nodes),
                ret |-> IF ListThrows(nodes) THEN JNull ELSE nodes]
    /\ UNCHANGED <<lsNodes, lsEdges, nodes, edges, hist, appIdle>>

\* edgeStore.list()
StoreEdgeList ==
    /\ call' = [op |-> "edgeList", threw |-> EdgeListThrows(edges),
                ret |-> IF EdgeListThrows(edges) THEN JNull ELSE edges]
    /\ UNCHANGED <<lsNodes, lsEdges, nodes, edges, hist, appIdle>>

\* nodeStore.add(x, y)
StoreAdd(p) ==
    /\ IF AddThrows(nodes) THEN TRUE ELSE NextId(nodes) <= MaxId
    /\ IF AddThrows(nodes)
       THEN /\ call' = [op |-> "add", threw |-> TRUE, ret |-> JNull]
            /\ UNCHANGED <<nodes, lsNodes, hist>>
       ELSE /\ nodes' = Add(nodes, p[1], p[2], Available)
            /\ lsNodes' = Stringify(nodes')
            /\ call' = [op |-> "add", threw |-> FALSE, ret |-> JNull]
            /\ hist' = [hist EXCEPT !.mutated = TRUE]
    /\ UNCHANGED <<lsEdges, edges, appIdle>>

\* nodeStore.removeNearest(x, y, 40)
StoreRemoveNearest(p) ==
    /\ IF RemoveNearestThrows(nodes)
       THEN /\ call' = [op |-> "removeNearest", threw |-> TRUE, ret |-> JNull]
            /\ UNCHANGED <<nodes, lsNodes, hist>>
       ELSE /\ nodes' = RemoveNearest(nodes, p[1], p[2])
            /\ lsNodes' = IF RemoveNearestHit(nodes, p[1], p[2])
                          THEN Stringify(nodes') ELSE lsNodes
            /\ call' = [op |-> "removeNearest", threw |-> FALSE, ret |-> JNull]
            /\ hist' = [hist EXCEPT !.mutated = @ \/ RemoveNearestHit(nodes, p[1], p[2])]
    /\ UNCHANGED <<lsEdges, edges, appIdle>>

\* nodeStore.clear()
StoreClear ==
    /\ nodes' = JArr(<<>>)
    /\ lsNodes' = Stringify(nodes')
    /\ call' = [op |-> "clear", threw |-> FALSE, ret |-> JNull]
    /\ hist' = [hist EXCEPT !.mutated = TRUE]
    /\ UNCHANGED <<lsEdges, edges, appIdle>>

NextStore ==
    \/ StoreList
    \/ StoreEdgeList
    \/ \E p \in Points : StoreAdd(p)
    \/ \E p \in Points : StoreRemoveNearest(p)
    \/ StoreClear

SpecStore == InitStore /\ [][NextStore]_vars

(***************************************************************************)
(* Strings                                                                 *)
(***************************************************************************)
IsWs(c) == c \in {Sp, Nl}

RECURSIVE TrimStart(_)
TrimStart(s) == IF s # <<>> /\ IsWs(Head(s)) THEN TrimStart(Tail(s)) ELSE s

RECURSIVE TrimEnd(_)
TrimEnd(s) ==
    IF s # <<>> /\ IsWs(s[Len(s)]) THEN TrimEnd(SubSeq(s, 1, Len(s) - 1)) ELSE s

\* String.prototype.trim
Trim(s) == TrimEnd(TrimStart(s))

\* split(/\r?\n/) of a textarea value (its line breaks are line feeds):
\* SplitAcc carries the lines closed so far and the line being read
RECURSIVE SplitAcc(_, _, _)
SplitAcc(s, done, cur) ==
    IF s = <<>> THEN Append(done, cur)
    ELSE IF Head(s) = Nl THEN SplitAcc(Tail(s), Append(done, cur), <<>>)
    ELSE SplitAcc(Tail(s), done, Append(cur, Head(s)))

RECURSIVE MapTrim(_)
MapTrim(ls) == IF ls = <<>> THEN <<>> ELSE <<Trim(Head(ls))>> \o MapTrim(Tail(ls))

\* (inputObj.value || "").split(/\r?\n/).map(s => s.trim()).filter(Boolean)
\* (filter(Boolean) on strings: the empty string is dropped)
ObjectiveLines(text) ==
    LET NonEmpty(l) == l # <<>>
    IN SelectSeq(MapTrim(SplitAcc(text, <<>>, <<>>)), NonEmpty)

Strs(chars, n) == UNION {[1..k -> chars] : k \in 0..n}

(***************************************************************************)
(* openCreateNodeDialog                                                    *)
(***************************************************************************)
\* what the difficulty field holds: nothing, text that is no number, or a number
DiffEmpty == [kind |-> "empty", t |-> 0]
DiffJunk == [kind |-> "junk", t |-> 0]
DiffNum(t) == [kind |-> "num", t |-> t]

\* inputDiff.type = "number": the value of a field whose content is no
\* floating-point number is the empty string
NumberInputValue(content) == IF content.kind = "junk" THEN DiffEmpty ELSE content

\* Number(value || "0")
NumberOf(value) ==
    IF value.kind = "empty" THEN Num(0)
    ELSE IF value.kind = "junk" THEN NaN
    ELSE Num(value.t)

\* the difficulty of the result: Math.max(0, Math.min(33, Math.round(Number(...))))
SubmitDifficultyNoMin(content) ==
    MathMax(Num(0), MathRound(NumberOf(NumberInputValue(content))))
SubmitDifficulty(content) ==
    MathMax(Num(0), MathMin(Num(DifficultyMax * 10),
                            MathRound(NumberOf(NumberInputValue(content)))))

Typed(title, text, diff) == [title |-> title, text |-> text, diff |-> diff]
NullResult == [title |-> <<>>, objectives |-> <<>>, difficulty |-> NaN, null |-> TRUE]
Result(m) == [title |-> m.title, objectives |-> m.objectives,
              difficulty |-> m.difficulty, null |-> FALSE]

\* the dialog once shown: panel in the UI layer, form in the body, style tag
\* in the head, resize/scroll listeners registered, promise pending
DialogOpened(attach) ==
    [attach |-> attach, panel |-> TRUE, form |-> TRUE, style |-> TRUE,
     listeners |-> TRUE, resolves |-> 0]

\* cleanup()
CleanupKeepsPanel(d) ==
    [d EXCEPT !.listeners = FALSE, !.form = FALSE, !.style = FALSE]
Cleanup(d) ==
    [d EXCEPT !.listeners = FALSE, !.form = FALSE, !.style = FALSE, !.panel = FALSE]

\* form.onsubmit: a blank title only refocuses the title field
SubmitBlocked(typed) == Trim(typed.title) = <<>>
SubmitResult(typed) ==
    Result([title |-> Trim(typed.title), objectives |-> ObjectiveLines(typed.text),
            difficulty |-> SubmitDifficulty(typed.diff)])
Submitted(d, typed) ==
    IF SubmitBlocked(typed) THEN d
    ELSE [Cleanup(d) EXCEPT !.resolves = @ + 1]

\* cancel(): cleanup(); resolve(null)
Cancelled(d) == [Cleanup(d) EXCEPT !.resolves = @ + 1]

\* a dialog is reachable by input as long as its panel or its form is attached
LiveDialogs(ds) ==
    LET DialogLive(d) == d.panel \/ d.form
    IN SelectSeq(ds, DialogLive)

DialogCall(op, d, typed, settled, result) ==
    [op |-> op, threw |-> FALSE, ret |-> JNull, dlg |-> d, typed |-> typed,
     settled |-> settled, result |-> result]

(***************************************************************************)
(* SpecDialog: openCreateNodeDialog called by a caller that only awaits    *)
(* the result                                                              *)
(***************************************************************************)
TypedInputs ==
    {Typed(t, o, DiffEmpty) : t \in {<<>>, <<Sp>>, <<"a">>, <<Sp, "a", Sp>>},
                              o \in Strs({"a", Sp, Nl}, MaxLen)}
        \cup {Typed(<<"a">>, <<"a">>, d) :
                 d \in {DiffEmpty, DiffJunk} \cup
                       {DiffNum(t) : t \in {-10, -4, 0, 25, 70, 330, 334, 335, 400}}}

InitDialog ==
    /\ lsNodes = Absent /\ lsEdges = Absent
    /\ lsState = [i \in Ids |-> Absent]
    /\ nodes = JArr(<<>>) /\ edges = JArr(<<>>)
    /\ call = NoCall
    /\ hist = NoHist
    /\ gen = 0 /\ insts = {} /\ uiEdges = <<>>
    /\ edgeMode = EdgeOff /\ lastClickedId = None
    /\ cursor = <<(DESIGN_W * 10) \div 2, (DESIGN_H * 10) \div 2>>
    /\ dragKey = FALSE /\ dialogs = <<>>
    /\ overlay = NoOverlay

dialogIdle == <<lsNodes, lsEdges, lsState, nodes, edges, gen, insts, uiEdges,
                edgeMode, lastClickedId, cursor, dragKey, overlay, hist>>

\* openCreateNodeDialog({attachNear})
DialogOpen(p) ==
    /\ Len(dialogs) < MaxDialogs
    /\ dialogs' = Append(dialogs, DialogOpened(p))
    /\ call' = NoCall
    /\ UNCHANGED dialogIdle

\* tap on Cancel
DialogCancel(i) ==
    /\ i \in 1..Len(dialogs)
    /\ dialogs[i].panel
    /\ dialogs' = LiveDialogs([dialogs EXCEPT ![i] = Cancelled(dialogs[i])])
    /\ call' = DialogCall("cancel", Cancelled(dialogs[i]), Typed(<<>>, <<>>, DiffEmpty),
                          dialogs[i].resolves = 0, NullResult)
    /\ UNCHANGED dialogIdle

\* tap on Create (form.requestSubmit()), the fields holding `typed`
DialogSubmit(i, typed) ==
    /\ i \in 1..Len(dialogs)
    /\ dialogs[i].panel /\ dialogs[i].form
    /\ dialogs' = LiveDialogs([dialogs EXCEPT ![i] = Submitted(dialogs[i], typed)])
    /\ call' = DialogCall("submit", Submitted(dialogs[i], typed), typed,
                          ~SubmitBlocked(typed) /\ dialogs[i].resolves = 0,
                          IF SubmitBlocked(typed) THEN NullResult ELSE SubmitResult(typed))
    /\ UNCHANGED dialogIdle

NextDialog ==
    \/ \E p \in Points : DialogOpen(p)
    \/ \E i \in 1..MaxDialogs : DialogCancel(i)
    \/ \E i \in 1..MaxDialogs, typed \in TypedInputs : DialogSubmit(i, typed)

SpecDialog == InitDialog /\ [][NextDialog]_vars

(***************************************************************************)
(* UINode: state kept per instance, per-node storage entry                 *)
(***************************************************************************)
Objective(id, text, done) == [id |-> id, text |-> text, done |-> done]

\* JSON.stringify of a number: NaN is written as null
JsonNumber(n) == [k |-> "number", n |-> n]
StringifyNumber(n) == IF n.nan THEN JNull ELSE JsonNumber(n)

StateObj(status, objectives, title, difficulty) ==
    [status |-> status, objectives |-> objectives, title |-> title,
     difficulty |-> difficulty]

NoPanel == [open |-> FALSE, rows |-> <<>>, builds |-> 0]

\* loadState(): fields of the stored entry overwrite the constructor's values;
\* a missing or unparsable entry changes nothing
LoadState(i, raw) ==
    IF ~Truthy(raw) \/ ParseThrows(raw) THEN i
    ELSE [i EXCEPT !.status = raw.v.status,
                   !.objectives = raw.v.objectives,
                   !.title = raw.v.title,
                   !.difficulty = IF raw.v.difficulty.k = "number"
                                  THEN raw.v.difficulty.n ELSE @]

\* new UINode(row.x, row.y, row.status ?? Locked, row.id) followed by
\* enableObjectivesUI(app, tree, uiLayer, callbacks?)
NewInstance(row, g, wired, store) ==
    LoadState([gen |-> g, id |-> row.id, x |-> row.x, y |-> row.y,
               status |-> row.status, objectives |-> <<>>, title |-> <<>>,
               difficulty |-> Num(0), panel |-> NoPanel, dragging |-> FALSE,
               off |-> <<0, 0>>, suppress |-> FALSE, wired |-> wired,
               over |-> FALSE, tooltip |-> FALSE, tipPending |-> 0, tips |-> 0],
              store[row.id])

\* saveState(): the entry written under tol.node.v1.<id>
SaveState(i) ==
    Json(StateObj(i.status, i.objectives, i.title, StringifyNumber(i.difficulty)))

\* an instance can still act if it is rendered, has a panel or a tooltip in
\* the UI layer (or a showTooltip() in flight) or has its drag listeners on
\* the window
Reachable(i, g) ==
    i.gen = g \/ i.panel.open \/ i.dragging \/ i.tips > 0 \/ i.tipPending > 0
Live(g) == {i \in insts : i.gen = g}
LiveIds(is, g) == {i.id : i \in {j \in is : j.gen = g}}

\* closePanel()
ClosePanel(i) == [i EXCEPT !.panel = NoPanel]

\* hideTooltip(): removes from the UI layer the container this.tooltip refers
\* to, if there is one; tips counts the node's containers in the UI layer
HideTooltip(i) ==
    IF i.tooltip THEN [i EXCEPT !.tooltip = FALSE, !.tips = @ - 1] ELSE i

\* openPanel(): closePanel(); new BubblePanel(...) whose constructor starts a build
OpenPanel(i) == [i EXCEPT !.panel = [open |-> TRUE, rows |-> <<>>, builds |-> 1]]

\* what a finished build() shows: one row per objective, text and check mark
RowsOf(objectives) ==
    [k \in 1..Len(objectives) |-> [text |-> objectives[k].text, done |-> objectives[k].done]]

\* recomputeStatusFromObjectives(), the status it leaves
RecomputedStatusReverts(i) ==
    IF Len(i.objectives) > 0 /\ (\A k \in 1..Len(i.objectives) : i.objectives[k].done)
    THEN Learned
    ELSE Available
RecomputedStatus(i) ==
    IF Len(i.objectives) > 0 /\ (\A k \in 1..Len(i.objectives) : i.objectives[k].done)
    THEN Learned
    ELSE IF i.status = Locked THEN Available
    ELSE i.status

\* onToggle(objId): flip the objective with that id, saveState(),
\* recomputeStatusFromObjectives(), panel.setObjectives(...) (a new build)
ToggleHits(i, objId) == \E k \in 1..Len(i.objectives) : i.objectives[k].id = objId
FirstWithId(objectives, objId) ==
    CHOOSE k \in 1..Len(objectives) :
        objectives[k].id = objId /\ \A j \in 1..(k - 1) : objectives[j].id # objId
Toggled(i, objId) ==
    LET k == FirstWithId(i.objectives, objId)
        flipped == [i EXCEPT !.objectives[k].done = ~@]
    IN [flipped EXCEPT !.status = RecomputedStatus(flipped),
                       !.panel.builds = IF flipped.panel.open THEN @ + 1 ELSE @]

(***************************************************************************)
(* main (edge mode): rendering                                             *)
(***************************************************************************)
UiEdge(e, g) == [from |-> e.from, to |-> e.to, kind |-> KindOf(e), gen |-> g]

\* rebuildEdges(): one UIEdge per edge of edgeStore.list() whose ends are both
\* in nodeMap, in list order
RECURSIVE RebuildEdgesNoSkip(_, _, _)
RebuildEdgesNoSkip(rows, ids, g) ==
    IF rows = <<>> THEN <<>>
    ELSE <<UiEdge(Head(rows), g)>> \o RebuildEdgesNoSkip(Tail(rows), ids, g)
RECURSIVE RebuildEdges(_, _, _)
RebuildEdges(rows, ids, g) ==
    IF rows = <<>> THEN <<>>
    ELSE IF Head(rows).from \in ids /\ Head(rows).to \in ids
         THEN <<UiEdge(Head(rows), g)>> \o RebuildEdges(Tail(rows), ids, g)
         ELSE RebuildEdges(Tail(rows), ids, g)

RowSet(rows) == {rows[k] : k \in 1..Len(rows)}

\* rebuildNodes(): dispose?.() on each instance (UINode declares no dispose, so
\* nothing is called), then one new instance per row of nodeStore.list()
RebuildNodes(is, rows, g, wired, store) ==
    {i \in is : i.panel.open \/ i.dragging}
        \cup {NewInstance(r, g, wired, store) : r \in RowSet(rows)}

(***************************************************************************)
(* UINode: drag                                                            *)
(***************************************************************************)
\* persistXY(): the row of this id in the stored list gets x, y; a missing or
\* unparsable text, or one that holds no list, is left alone (try/catch)
PersistXY(raw, i) ==
    IF ~Truthy(raw) \/ ParseThrows(raw) THEN raw
    ELSE IF raw.v.k # "arr" THEN raw
    ELSE IF IndexOfId(raw.v.rows, i.id) = 0 THEN raw
    ELSE Json(Update(raw.v, i.id, i.x, i.y))

\* finishDrag() of one instance, on the stored text and the node store:
\* persistXY(), then onDropCb?.(id, x, y) = nodeStore.update(id, x, y)
DropOne(st, i) ==
    LET ls1 == PersistXY(st.ls, i) IN
    IF i.wired /\ UpdateHits(st.mem, i.id)
    THEN [ls |-> Stringify(Update(st.mem, i.id, i.x, i.y)),
          mem |-> Update(st.mem, i.id, i.x, i.y)]
    ELSE [ls |-> ls1, mem |-> st.mem]

\* the window listeners run in the order the drags started: an instance of an
\* older generation before a newer one
Oldest(is) ==
    CHOOSE i \in is : \A j \in is : i.gen < j.gen \/ (i.gen = j.gen /\ i.id <= j.id)
RECURSIVE DropAll(_, _)
DropAll(st, is) ==
    IF is = {} THEN st ELSE DropAll(DropOne(st, Oldest(is)), is \ {Oldest(is)})

\* the instances whose move and up listeners act: those with this.dragging set
\* (DraggingOrNot: listeners that never look at this.dragging)
DraggingOrNot(is) == is
Dragging(is) == {i \in is : i.dragging}
Moved(i, p) == [i EXCEPT !.x = p[1] - i.off[1], !.y = p[2] - i.off[2]]
Gc(is, g) == {i \in is : Reachable(i, g)}

\* the position the last finished drag of each listed node left it at
RECURSIVE DroppedAfter(_, _, _)
DroppedAfter(d, is, mem) ==
    IF is = {} THEN d
    ELSE LET i == Oldest(is) IN
         DroppedAfter(IF IndexOfId(mem.rows, i.id) # 0
                      THEN [d EXCEPT ![i.id] = <<i.x, i.y>>] ELSE d,
                      is \ {i}, mem)

(***************************************************************************)
(* Spec: the edge-mode main program                                        *)
(***************************************************************************)
SeedState(t) ==
    Json(StateObj(Locked, <<Objective(1, <<"a">>, FALSE)>>, <<"a">>, JsonNumber(Num(t))))
NoState == [i \in Ids |-> Absent]
\* storage content found at start: nothing; two nodes joined by an edge, the
\* first with an entry; one node with an entry whose difficulty another writer
\* left out of range, and an edge to a node that is gone
Seeds ==
    {[nodes |-> Absent, edges |-> Absent, state |-> NoState],
     [nodes |-> Json(JArr(<<Row(1, 0, 0, Locked), Row(2, 300, 0, Available)>>)),
      edges |-> Json(JArr(<<Edge(1, 2, "linear")>>)),
      state |-> [NoState EXCEPT ![1] = SeedState(70)]],
     [nodes |-> Json(JArr(<<Row(1, 0, 0, Locked)>>)),
      edges |-> Json(JArr(<<Edge(1, 2, NoKind)>>)),
      state |-> [NoState EXCEPT ![1] = SeedState(990)]]}

\* window sizes (innerWidth, innerHeight) the page is shown at
FirstWindow == <<5000, 7000>>
WindowSizes == {FirstWindow, <<2500, 7000>>, <<1000, 1400>>}

\* resize(): the uniform scale of the tree container, min(w / DESIGN_W,
\* h / DESIGN_H), in thousandths, and its centred position, in 1/10000 px
Tree(win) ==
    LET sw == (win[1] * 1000) \div DESIGN_W
        sh == (win[2] * 1000) \div DESIGN_H
        s == IF sw < sh THEN sw ELSE sh
    IN [s |-> s,
        x |-> (win[1] * 10000 - DESIGN_W * 10 * s) \div 2,
        y |-> (win[2] * 10000 - DESIGN_H * 10 * s) \div 2]

\* WaterFlowOverlay.designToScreen: tree.position + p * tree.scale.x
DesignToScreen(t, p) == <<t.x + p[1] * t.s, t.y + p[2] * t.s>>

\* WaterFlowOverlay.link: the flow pushed; its curve and tube are computed
\* from the screen points a and b of the two ends
Flow(from, to, t) ==
    [from |-> from, to |-> to, a |-> DesignToScreen(t, from), b |-> DesignToScreen(t, to)]

\* rebuildWires(): overlay.clear(), then one link per pair of consecutive uiNodes
RebuildWires(rows, t) ==
    [k \in 1..(Len(rows) - 1) |->
        Flow(<<rows[k].x, rows[k].y>>, <<rows[k + 1].x, rows[k + 1].y>>, t)]

\* WaterFlowOverlay.onResize: every flow is cleared and linked again
OnResize(flows, t) == [k \in 1..Len(flows) |-> Flow(flows[k].from, flows[k].to, t)]

\* the state after main's start-up: stores created, rebuildNodes() run once
Started(wired) ==
    /\ \E seed \in Seeds :
          /\ lsNodes = seed.nodes
          /\ lsEdges = seed.edges
          /\ lsState = seed.state
    /\ nodes = Load(lsNodes)
    /\ edges = IF wired THEN Load(lsEdges) ELSE JArr(<<>>)
    /\ gen = 1
    /\ insts = RebuildNodes({}, nodes.rows, 1, wired, lsState)
    /\ uiEdges = IF wired THEN RebuildEdges(edges.rows, LiveIds(insts, 1), 1) ELSE <<>>
    /\ edgeMode = EdgeOff /\ lastClickedId = None
    /\ cursor = <<(DESIGN_W * 10) \div 2, (DESIGN_H * 10) \div 2>>
    /\ dragKey = FALSE
    /\ dialogs = <<>>
    /\ call = NoCall
    /\ overlay = [win |-> FirstWindow, tree |-> Tree(FirstWindow),
                  flows |-> IF wired THEN <<>>
                            ELSE RebuildWires(nodes.rows, Tree(FirstWindow))]
    /\ hist = NoHist

Init == Started(TRUE)

Replace(is, i, j) == (is \ {i}) \cup {j}

\* keydown E / keyup E seen by the UINode module
KeyDownE ==
    /\ ~dragKey
    /\ dragKey' = TRUE
    /\ UNCHANGED <<lsNodes, lsEdges, lsState, nodes, edges, gen, insts, uiEdges,
                   edgeMode, lastClickedId, cursor, dialogs, call, hist, overlay>>

\* every drag in progress ends: finishDrag() of each dragging instance
FinishDrags ==
    LET ds == Dragging(insts)
        st == DropAll([ls |-> lsNodes, mem |-> nodes], ds)
        is == Gc((insts \ ds) \cup {[i EXCEPT !.dragging = FALSE, !.suppress = TRUE] : i \in ds}, gen)
    IN /\ lsNodes' = st.ls
       /\ nodes' = st.mem
       /\ insts' = is
       /\ uiEdges' = IF \E i \in ds : i.wired
                      THEN RebuildEdges(edges.rows, LiveIds(is, gen), gen) ELSE uiEdges
       /\ hist' = [hist EXCEPT !.dropped = DroppedAfter(@, ds, st.mem)]

\* keyup E: DRAG_KEY_DOWN = false, and the keyUp listener of each drag
KeyUpE ==
    /\ dragKey
    /\ dragKey' = FALSE
    /\ FinishDrags
    /\ UNCHANGED <<lsEdges, lsState, edges, gen, edgeMode, lastClickedId, cursor,
                   dialogs, call, overlay>>

\* pointerup anywhere: the up listener of each drag
PointerUp ==
    /\ Dragging(insts) # {}
    /\ FinishDrags
    /\ UNCHANGED <<lsEdges, lsState, edges, gen, edgeMode, lastClickedId, cursor,
                   dragKey, dialogs, call, overlay>>

\* onPointerDown on a rendered node, the pointer on its centre
PointerDown(i) ==
    /\ i \in Live(gen)
    /\ dragKey
    /\ ~i.dragging
    /\ insts' = Replace(insts, i,
                    [HideTooltip(ClosePanel(i)) EXCEPT !.dragging = TRUE, !.off = <<0, 0>>])
    /\ hist' = [hist EXCEPT !.dropped[i.id] = NoDrop]
    /\ UNCHANGED <<lsNodes, lsEdges, lsState, nodes, edges, gen, uiEdges, edgeMode,
                   lastClickedId, cursor, dragKey, dialogs, call, overlay>>

\* pointermove on the window: main's cursorDesign and the move listener of each drag
PointerMove(p) ==
    /\ cursor' = p
    /\ insts' = (insts \ Dragging(insts)) \cup {Moved(i, p) : i \in Dragging(insts)}
    /\ uiEdges' = IF \E i \in Dragging(insts) : i.wired
                  THEN RebuildEdges(edges.rows, LiveIds(insts, gen), gen) ELSE uiEdges
    /\ UNCHANGED <<lsNodes, lsEdges, lsState, nodes, edges, gen, edgeMode,
                   lastClickedId, dragKey, dialogs, call, hist, overlay>>

\* performance.now() passes suppressTapUntil of an instance
SuppressExpires(i) ==
    /\ i \in insts
    /\ i.suppress
    /\ insts' = Replace(insts, i, [i EXCEPT !.suppress = FALSE])
    /\ UNCHANGED <<lsNodes, lsEdges, lsState, nodes, edges, gen, uiEdges, edgeMode,
                   lastClickedId, cursor, dragKey, dialogs, call, hist, overlay>>

\* setEdgeMode(mode)
SetEdgeModeKeepsLast(mode, last) == [mode |-> mode, last |-> last]
SetEdgeMode(mode, last) == [mode |-> mode, last |-> None]

\* keydown W (not a repeat): linear, or off when linear already
KeyW ==
    /\ edgeMode' = SetEdgeMode(IF edgeMode = "linear" THEN EdgeOff ELSE "linear",
                               lastClickedId).mode
    /\ lastClickedId' = SetEdgeMode(IF edgeMode = "linear" THEN EdgeOff ELSE "linear",
                                    lastClickedId).last
    /\ hist' = [hist EXCEPT !.lastTap = None]
    /\ UNCHANGED <<lsNodes, lsEdges, lsState, nodes, edges, gen, insts, uiEdges,
                   cursor, dragKey, dialogs, call, overlay>>

\* keydown Q (not a repeat): curvy, or off when curvy already
KeyQ ==
    /\ edgeMode' = SetEdgeMode(IF edgeMode = "curvy" THEN EdgeOff ELSE "curvy",
                               lastClickedId).mode
    /\ lastClickedId' = SetEdgeMode(IF edgeMode = "curvy" THEN EdgeOff ELSE "curvy",
                                    lastClickedId).last
    /\ hist' = [hist EXCEPT !.lastTap = None]
    /\ UNCHANGED <<lsNodes, lsEdges, lsState, nodes, edges, gen, insts, uiEdges,
                   cursor, dragKey, dialogs, call, overlay>>

\* the onClick callback main passes: in edge mode the tap is consumed, and a
\* second node tapped adds the edge lastClickedId -> id and rebuilds the edges
ClickAddsEdge(id) == edgeMode # EdgeOff /\ lastClickedId # None /\ lastClickedId # id

\* what the pointertap handler gets from this.onClickCb?.(this.id): true in
\* edge mode, false when the mode is off, undefined without a callback
ConsumedNever(i) == FALSE
Consumed(i) == i.wired /\ edgeMode # EdgeOff

\* pointertap on a rendered node in edge mode
TapEdgeMode(i) ==
    /\ i \in Live(gen)
    /\ ~i.dragging /\ ~i.suppress
    /\ Consumed(i)
    /\ (ClickAddsEdge(i.id) /\ ~EdgeAddSkips(edges, lastClickedId, i.id, edgeMode))
           => Len(edges.rows) < MaxEdges
    /\ edges' = IF ClickAddsEdge(i.id)
                THEN EdgeAdd(edges, lastClickedId, i.id, edgeMode) ELSE edges
    /\ lsEdges' = IF ClickAddsEdge(i.id) /\ ~EdgeAddSkips(edges, lastClickedId, i.id, edgeMode)
                  THEN Stringify(edges') ELSE lsEdges
    /\ uiEdges' = IF ClickAddsEdge(i.id)
                  THEN RebuildEdges(edges'.rows, LiveIds(insts, gen), gen) ELSE uiEdges
    /\ lastClickedId' = i.id
    /\ hist' = [hist EXCEPT !.lastTap = i.id,
                            !.gone = IF ClickAddsEdge(i.id)
                                     THEN @ \ {lastClickedId, i.id} ELSE @]
    /\ UNCHANGED <<lsNodes, lsState, nodes, gen, insts, edgeMode, cursor, dragKey,
                   dialogs, call, overlay>>

\* pointerover on a rendered node: showTooltip() returns if this.tooltip is
\* set, otherwise it starts waiting for the header row (whose level icons are
\* loaded on first use); tipPending counts the calls in flight
PointerOver(i) ==
    /\ i \in Live(gen)
    /\ ~i.over
    /\ i.tipPending + i.tips < MaxBuilds
    /\ insts' = Replace(insts, i, [i EXCEPT !.over = TRUE,
                                            !.tipPending = IF i.tooltip THEN @ ELSE @ + 1])
    /\ UNCHANGED <<lsNodes, lsEdges, lsState, nodes, edges, gen, uiEdges, edgeMode,
                   lastClickedId, cursor, dragKey, dialogs, call, hist, overlay>>

\* a showTooltip() gets past its await: this.tooltip = c and c is added to
\* the UI layer, whatever this.tooltip was
TooltipBuilt(i) ==
    /\ i \in insts
    /\ i.tipPending > 0
    /\ insts' = Replace(insts, i, [i EXCEPT !.tipPending = @ - 1, !.tooltip = TRUE,
                                            !.tips = @ + 1])
    /\ UNCHANGED <<lsNodes, lsEdges, lsState, nodes, edges, gen, uiEdges, edgeMode,
                   lastClickedId, cursor, dragKey, dialogs, call, hist, overlay>>

\* pointerout of a rendered node: hideTooltip()
PointerOut(i) ==
    /\ i \in Live(gen)
    /\ i.over
    /\ insts' = Replace(insts, i, [HideTooltip(i) EXCEPT !.over = FALSE])
    /\ UNCHANGED <<lsNodes, lsEdges, lsState, nodes, edges, gen, uiEdges, edgeMode,
                   lastClickedId, cursor, dragKey, dialogs, call, hist, overlay>>

\* pointertap on a rendered node that main does not consume: openPanel()
TapOpensPanel(i) ==
    /\ i \in Live(gen)
    /\ ~i.dragging /\ ~i.suppress
    /\ ~Consumed(i)
    /\ insts' = Replace(insts, i, OpenPanel(i))
    /\ UNCHANGED <<lsNodes, lsEdges, lsState, nodes, edges, gen, uiEdges, edgeMode,
                   lastClickedId, cursor, dragKey, dialogs, call, hist, overlay>>

\* a build() of the instance's panel gets past its await and draws the rows
PanelBuildDone(i) ==
    /\ i \in insts
    /\ i.panel.open /\ i.panel.builds > 0
    /\ insts' = Replace(insts, i,
                    [i EXCEPT !.panel.builds = @ - 1, !.panel.rows = RowsOf(i.objectives)])
    /\ UNCHANGED <<lsNodes, lsEdges, lsState, nodes, edges, gen, uiEdges, edgeMode,
                   lastClickedId, cursor, dragKey, dialogs, call, hist, overlay>>

\* tap on the check box of row k of a panel in the UI layer
Toggle(i, k) ==
    /\ i \in insts
    /\ i.panel.open /\ k \in 1..Len(i.panel.rows)
    /\ i.panel.builds < MaxBuilds
    /\ ToggleHits(i, i.objectives[k].id)
    /\ insts' = Replace(insts, i, Toggled(i, i.objectives[k].id))
    /\ lsState' = [lsState EXCEPT ![i.id] = SaveState(Toggled(i, i.objectives[k].id))]
    /\ hist' = [hist EXCEPT !.written = @ \cup {i.id}]
    /\ UNCHANGED <<lsNodes, lsEdges, nodes, edges, gen, uiEdges, edgeMode,
                   lastClickedId, cursor, dragKey, dialogs, call, overlay>>

\* tap on OK of a panel in the UI layer: onClose = closePanel()
PanelOk(i) ==
    /\ i \in insts
    /\ i.panel.open
    /\ insts' = Gc(Replace(insts, i, ClosePanel(i)), gen)
    /\ UNCHANGED <<lsNodes, lsEdges, lsState, nodes, edges, gen, uiEdges, edgeMode,
                   lastClickedId, cursor, dragKey, dialogs, call, hist, overlay>>

(***************************************************************************)
(* main: keys K, L, Ctrl+C                                                 *)
(***************************************************************************)
\* what is typed into the dialog in the program-level specifications
AppTyped ==
    {Typed(<<"a">>, <<Sp, "a", Nl>>, DiffNum(400)),
     Typed(<<Sp>>, <<"a">>, DiffEmpty)}

\* objectives: meta.objectives.map(t => ({id: random, text: t, done: false}))
NewObjectivesReversed(lines) ==
    [k \in 1..Len(lines) |-> Objective(k, lines[Len(lines) + 1 - k], FALSE)]
NewObjectives(lines) == [k \in 1..Len(lines) |-> Objective(k, lines[k], FALSE)]

\* the entry key K writes for the created node
CreatedState(meta) ==
    Json(StateObj(Available, NewObjectives(meta.objectives), meta.title,
                  StringifyNumber(meta.difficulty)))

\* keydown K: openCreateNodeDialog({attachNear: toGlobal(cursorDesign)})
KeyK ==
    /\ Len(dialogs) < MaxDialogs
    /\ dialogs' = Append(dialogs, DialogOpened(cursor))
    /\ UNCHANGED <<lsNodes, lsEdges, lsState, nodes, edges, gen, insts, uiEdges,
                   edgeMode, lastClickedId, cursor, dragKey, call, hist, overlay>>

\* Cancel in a dialog opened by K: the handler returns on null
KCancel(n) ==
    /\ n \in 1..Len(dialogs)
    /\ dialogs[n].panel
    /\ dialogs' = LiveDialogs([dialogs EXCEPT ![n] = Cancelled(dialogs[n])])
    /\ UNCHANGED <<lsNodes, lsEdges, lsState, nodes, edges, gen, insts, uiEdges,
                   edgeMode, lastClickedId, cursor, dragKey, call, hist, overlay>>

\* Create with a blank title: nothing but focus changes
KSubmitBlank(n, typed) ==
    /\ n \in 1..Len(dialogs)
    /\ dialogs[n].panel /\ dialogs[n].form
    /\ SubmitBlocked(typed)
    /\ UNCHANGED vars

\* Create in a dialog opened by K: nodeStore.add at cursorDesign, the per-node
\* entry, rebuildNodes(), openPanel() of the new node
KSubmit(n, typed, wired) ==
    /\ n \in 1..Len(dialogs)
    /\ dialogs[n].panel /\ dialogs[n].form
    /\ ~SubmitBlocked(typed)
    /\ gen < MaxGen
    /\ NextId(nodes) <= MaxId
    /\ dialogs' = LiveDialogs([dialogs EXCEPT ![n] = Submitted(dialogs[n], typed)])
    /\ LET created == AddedRow(nodes, cursor[1], cursor[2], Available)
           rebuilt == RebuildNodes(insts, nodes'.rows, gen + 1, wired, lsState')
           node == CHOOSE i \in rebuilt : i.gen = gen + 1 /\ i.id = created.id
       IN /\ nodes' = Add(nodes, cursor[1], cursor[2], Available)
          /\ lsNodes' = Stringify(nodes')
          /\ lsState' = [lsState EXCEPT ![created.id] = CreatedState(SubmitResult(typed))]
          /\ hist' = [hist EXCEPT !.written = @ \cup {created.id}]
          /\ gen' = gen + 1
          /\ insts' = Replace(rebuilt, node, OpenPanel(node))
          /\ uiEdges' = IF wired
                        THEN RebuildEdges(edges.rows, LiveIds(insts', gen'), gen')
                        ELSE uiEdges
          /\ overlay' = IF wired THEN overlay
                        ELSE [overlay EXCEPT !.flows = RebuildWires(nodes'.rows, overlay.tree)]
    /\ UNCHANGED <<lsEdges, edges, edgeMode, lastClickedId, cursor, dragKey, call>>

\* the edge list key L writes: the stored text, parsed, without the edges of the node
EdgesTextWithout(raw, id) ==
    LET list == IF Truthy(raw) THEN ParseValue(raw).rows ELSE <<>>
        keep(e) == e.from # id /\ e.to # id
    IN Json(JArr(SelectSeq(list, keep)))

\* keydown L (edge-mode main): removeNearest at cursorDesign; on a hit dispose?.()
\* of the instance (UINode declares none), the entry and the edges of the node
\* are removed from storage, rebuildNodes()
KeyL ==
    /\ RemoveNearestHit(nodes, cursor[1], cursor[2])
    /\ gen < MaxGen
    /\ LET rid == RemovedId(nodes, cursor[1], cursor[2]) IN
          /\ nodes' = RemoveNearest(nodes, cursor[1], cursor[2])
          /\ lsNodes' = Stringify(nodes')
          /\ lsState' = [lsState EXCEPT ![rid] = Absent]
          /\ lsEdges' = EdgesTextWithout(lsEdges, rid)
          /\ hist' = [hist EXCEPT !.dropped[rid] = NoDrop, !.written = @ \ {rid},
                                  !.gone = @ \cup {rid}]
    /\ gen' = gen + 1
    /\ insts' = RebuildNodes(insts, nodes'.rows, gen', TRUE, lsState')
    /\ uiEdges' = RebuildEdges(edges.rows, LiveIds(insts', gen'), gen')
    /\ UNCHANGED <<edges, edgeMode, lastClickedId, cursor, dragKey, dialogs, call, overlay>>

\* Ctrl/Cmd+C, confirmed (edge-mode main): nodeStore.clear(), "[]" under the
\* edge key, every listed node's entry removed, rebuildNodes()
KeyCtrlC ==
    /\ gen < MaxGen
    /\ nodes' = JArr(<<>>)
    /\ lsNodes' = Stringify(nodes')
    /\ lsEdges' = Json(JArr(<<>>))
    /\ lsState' = [id \in Ids |->
                      IF id \in {r.id : r \in RowSet(nodes.rows)} THEN Absent
                      ELSE lsState[id]]
    /\ hist' = [hist EXCEPT !.dropped = [id \in Ids |-> NoDrop],
                            !.written = @ \ {r.id : r \in RowSet(nodes.rows)}]
    /\ gen' = gen + 1
    /\ insts' = RebuildNodes(insts, nodes'.rows, gen', TRUE, lsState')
    /\ uiEdges' = RebuildEdges(edges.rows, LiveIds(insts', gen'), gen')
    /\ UNCHANGED <<edges, edgeMode, lastClickedId, cursor, dragKey, dialogs, call, overlay>>

\* one line of the export: `${r.id},${Math.round(r.x)},${Math.round(r.y)}`
\* (ExportLineTruncated: the fraction cut off instead)
ExportLineTruncated(r) == <<r.id, r.x \div 10, r.y \div 10>>
ExportLine(r) == <<r.id, MathRound(Num(r.x)).t \div 10, MathRound(Num(r.y)).t \div 10>>

\* the CSV text as its lines: "node_id,x,y\n" + rows.map(...).join("\n"); the
\* join of no row is the empty string, an empty last line
CsvText(rows) ==
    << <<"node_id", "x", "y">> >> \o (IF rows = <<>> THEN << <<>> >>
         ELSE [k \in 1..Len(rows) |-> ExportLine(rows[k])])

\* Ctrl/Cmd+E: the node list is written to a CSV download
KeyCtrlE ==
    /\ call' = [op |-> "export", threw |-> FALSE, ret |-> CsvText(nodes.rows)]
    /\ UNCHANGED <<lsNodes, lsEdges, lsState, nodes, edges, gen, insts, uiEdges,
                   edgeMode, lastClickedId, cursor, dragKey, dialogs, hist, overlay>>

\* a resize event of the window: its listeners run in the order they were
\* registered, the overlay's onResize (added in its constructor) before
\* main's resize()
WindowResize(win) ==
    /\ win # overlay.win
    /\ overlay' = [win |-> win,
                   flows |-> OnResize(overlay.flows, overlay.tree),
                   tree |-> Tree(win)]
    /\ UNCHANGED <<lsNodes, lsEdges, lsState, nodes, edges, gen, insts, uiEdges,
                   edgeMode, lastClickedId, cursor, dragKey, dialogs, call, hist>>

Next ==
    \/ KeyDownE
    \/ KeyUpE
    \/ PointerUp
    \/ \E i \in insts : PointerDown(i)
    \/ \E p \in Points : PointerMove(p)
    \/ \E i \in insts : SuppressExpires(i)
    \/ KeyW
    \/ KeyQ
    \/ \E i \in insts : TapEdgeMode(i)
    \/ \E i \in insts : TapOpensPanel(i)
    \/ \E i \in insts : PanelBuildDone(i)
    \/ \E i \in insts : \E k \in 1..Len(i.objectives) : Toggle(i, k)
    \/ \E i \in insts : PanelOk(i)
    \/ KeyK
    \/ \E n \in 1..MaxDialogs : KCancel(n)
    \/ \E n \in 1..MaxDialogs, typed \in AppTyped : KSubmitBlank(n, typed)
    \/ \E n \in 1..MaxDialogs, typed \in AppTyped : KSubmit(n, typed, TRUE)
    \/ KeyL
    \/ KeyCtrlC
    \/ KeyCtrlE
    \/ \E win \in WindowSizes : WindowResize(win)
    \/ \E i \in insts : PointerOver(i)
    \/ \E i \in insts : TooltipBuilt(i)
    \/ \E i \in insts : PointerOut(i)

Spec == Init /\ [][Next]_vars

\* the edge-mode main when no panel is touched: keys, drags, edge mode
NextEdges ==
    \/ KeyDownE
    \/ KeyUpE
    \/ PointerUp
    \/ \E i \in insts : PointerDown(i)
    \/ \E p \in Points : PointerMove(p)
    \/ \E i \in insts : SuppressExpires(i)
    \/ KeyW
    \/ KeyQ
    \/ \E i \in insts : TapEdgeMode(i)
    \/ KeyK
    \/ \E n \in 1..MaxDialogs : KCancel(n)
    \/ \E n \in 1..MaxDialogs, typed \in AppTyped : KSubmitBlank(n, typed)
    \/ \E n \in 1..MaxDialogs, typed \in AppTyped :
          gen < MaxGenBusy /\ KSubmit(n, typed, TRUE)
    \/ gen < MaxGenBusy /\ KeyL
    \/ gen < MaxGenBusy /\ KeyCtrlC

SpecEdges == Init /\ [][NextEdges]_vars

\* the edge-mode main when nothing is dragged and the edge mode stays off:
\* keys and panels
NextPanels ==
    \/ \E p \in Points : PointerMove(p)
    \/ \E i \in insts : TapOpensPanel(i)
    \/ \E i \in insts : PanelBuildDone(i)
    \/ \E i \in insts : \E k \in 1..Len(i.objectives) : Toggle(i, k)
    \/ \E i \in insts : PanelOk(i)
    \/ KeyK
    \/ \E n \in 1..MaxDialogs : KCancel(n)
    \/ \E n \in 1..MaxDialogs, typed \in AppTyped : KSubmitBlank(n, typed)
    \/ \E n \in 1..MaxDialogs, typed \in AppTyped :
          gen < MaxGenBusy /\ KSubmit(n, typed, TRUE)
    \/ gen < MaxGenBusy /\ KeyL
    \/ gen < MaxGenBusy /\ KeyCtrlC

SpecPanels == Init /\ [][NextPanels]_vars

\* what is typed into the dialog where only keys are used
KeysTyped ==
    AppTyped \cup {Typed(<<"a", Sp>>, <<"b", Nl, Nl, Sp, "a">>, DiffJunk)}

\* the edge-mode main when nodes are hovered, dragged and tapped
NextDrags ==
    \/ KeyDownE
    \/ KeyUpE
    \/ PointerUp
    \/ \E i \in insts : PointerDown(i)
    \/ \E p \in Points : PointerMove(p)
    \/ \E i \in insts : SuppressExpires(i)
    \/ \E i \in insts : PointerOver(i)
    \/ \E i \in insts : TooltipBuilt(i)
    \/ \E i \in insts : PointerOut(i)
    \/ \E i \in insts : TapOpensPanel(i)
    \/ \E i \in insts : PanelOk(i)

SpecDrags == Init /\ [][NextDrags]_vars

\* the edge-mode main when only the keys K, L, Ctrl+C, Ctrl+E are used
NextKeys ==
    \/ \E p \in Points : PointerMove(p)
    \/ KeyK
    \/ \E n \in 1..MaxDialogs : KCancel(n)
    \/ \E n \in 1..MaxDialogs, typed \in KeysTyped : KSubmitBlank(n, typed)
    \/ \E n \in 1..MaxDialogs, typed \in KeysTyped : KSubmit(n, typed, TRUE)
    \/ KeyL
    \/ KeyCtrlC
    \/ KeyCtrlE

SpecKeys == Init /\ [][NextKeys]_vars

\* the edge-mode main when nothing is dragged and no objective is toggled:
\* keys, taps, edge mode
NextTaps ==
    \/ \E p \in Points : PointerMove(p)
    \/ KeyW
    \/ KeyQ
    \/ \E i \in insts : TapEdgeMode(i)
    \/ \E i \in insts : TapOpensPanel(i)
    \/ \E i \in insts : PanelOk(i)
    \/ KeyK
    \/ \E n \in 1..MaxDialogs : KCancel(n)
    \/ \E n \in 1..MaxDialogs, typed \in AppTyped : KSubmitBlank(n, typed)
    \/ \E n \in 1..MaxDialogs, typed \in AppTyped : KSubmit(n, typed, TRUE)
    \/ KeyL
    \/ KeyCtrlC

SpecTaps == Init /\ [][NextTaps]_vars

(***************************************************************************)
(* SpecMain: src/src/main.tsx, the main with the water overlay.  Its node  *)
(* store has no update(), enableObjectivesUI gets no callbacks, there is   *)
(* no edge store                                                           *)
(***************************************************************************)
InitMain == Started(FALSE)

\* keydown L: removeNearest at cursorDesign; on a hit the entry is removed and
\* rebuildNodes() runs
MainKeyL ==
    /\ RemoveNearestHit(nodes, cursor[1], cursor[2])
    /\ gen < MaxGen
    /\ LET rid == RemovedId(nodes, cursor[1], cursor[2]) IN
          /\ nodes' = RemoveNearest(nodes, cursor[1], cursor[2])
          /\ lsNodes' = Stringify(nodes')
          /\ lsState' = [lsState EXCEPT ![rid] = Absent]
          /\ hist' = [hist EXCEPT !.dropped[rid] = NoDrop, !.written = @ \ {rid},
                                  !.gone = @ \cup {rid}]
    /\ gen' = gen + 1
    /\ insts' = RebuildNodes(insts, nodes'.rows, gen', FALSE, lsState')
    /\ overlay' = [overlay EXCEPT !.flows = RebuildWires(nodes'.rows, overlay.tree)]
    /\ UNCHANGED <<lsEdges, edges, uiEdges, edgeMode, lastClickedId, cursor, dragKey,
                   dialogs, call>>

\* Ctrl/Cmd+C, confirmed: store.clear(), every listed node's entry removed,
\* rebuildNodes()
MainKeyCtrlC ==
    /\ gen < MaxGen
    /\ nodes' = JArr(<<>>)
    /\ lsNodes' = Stringify(nodes')
    /\ lsState' = [id \in Ids |->
                      IF id \in {r.id : r \in RowSet(nodes.rows)} THEN Absent
                      ELSE lsState[id]]
    /\ hist' = [hist EXCEPT !.dropped = [id \in Ids |-> NoDrop],
                            !.written = @ \ {r.id : r \in RowSet(nodes.rows)}]
    /\ gen' = gen + 1
    /\ insts' = RebuildNodes(insts, nodes'.rows, gen', FALSE, lsState')
    /\ overlay' = [overlay EXCEPT !.flows = RebuildWires(nodes'.rows, overlay.tree)]
    /\ UNCHANGED <<lsEdges, edges, uiEdges, edgeMode, lastClickedId, cursor, dragKey,
                   dialogs, call>>

NextMain ==
    \/ KeyDownE
    \/ KeyUpE
    \/ PointerUp
    \/ \E i \in insts : PointerDown(i)
    \/ \E p \in Points : PointerMove(p)
    \/ \E i \in insts : SuppressExpires(i)
    \/ KeyK
    \/ \E n \in 1..MaxDialogs : KCancel(n)
    \/ \E n \in 1..MaxDialogs, typed \in AppTyped : KSubmitBlank(n, typed)
    \/ \E n \in 1..MaxDialogs, typed \in AppTyped : KSubmit(n, typed, FALSE)
    \/ MainKeyL
    \/ MainKeyCtrlC

SpecMain == InitMain /\ [][NextMain]_vars

\* the same main when the window is resized and only the keys are used
NextOverlay ==
    \/ \E win \in WindowSizes : WindowResize(win)
    \/ \E p \in Points : PointerMove(p)
    \/ KeyK
    \/ \E n \in 1..MaxDialogs : KCancel(n)
    \/ \E n \in 1..MaxDialogs, typed \in AppTyped : KSubmitBlank(n, typed)
    \/ \E n \in 1..MaxDialogs, typed \in AppTyped : KSubmit(n, typed, FALSE)
    \/ MainKeyL
    \/ MainKeyCtrlC

SpecOverlay == InitMain /\ [][NextOverlay]_vars

(***************************************************************************)
(* SpecToggle: the edge-mode main started over one Locked node that has    *)
(* two objectives, its panel opened, its objectives toggled                *)
(***************************************************************************)
InitToggle ==
    /\ lsNodes = Json(JArr(<<Row(1, 0, 0, Locked)>>))
    /\ lsEdges = Absent
    /\ lsState = [NoState EXCEPT ![1] =
                     Json(StateObj(Locked, <<Objective(1, <<"a">>, FALSE),
                                             Objective(2, <<"b">>, FALSE)>>,
                                   <<"a">>, JsonNumber(Num(70))))]
    /\ nodes = Load(lsNodes)
    /\ edges = Load(lsEdges)
    /\ gen = 1
    /\ insts = RebuildNodes({}, nodes.rows, 1, TRUE, lsState)
    /\ uiEdges = RebuildEdges(edges.rows, LiveIds(insts, 1), 1)
    /\ edgeMode = EdgeOff /\ lastClickedId = None
    /\ cursor \in Points
    /\ dragKey = FALSE
    /\ dialogs = <<>>
    /\ call = NoCall
    /\ overlay = [win |-> FirstWindow, tree |-> Tree(FirstWindow), flows |-> <<>>]
    /\ hist = NoHist

NextToggle ==
    \/ \E p \in Points : PointerMove(p)
    \/ \E i \in insts : TapOpensPanel(i)
    \/ \E i \in insts : PanelBuildDone(i)
    \/ \E i \in insts : \E k \in 1..Len(i.objectives) : Toggle(i, k)
    \/ \E i \in insts : PanelOk(i)
    \/ KeyL
    \/ KeyCtrlC

SpecToggle == InitToggle /\ [][NextToggle]_vars

(***************************************************************************)
(* Claims                                                                  *)
(***************************************************************************)
\* the rows of the list stored under a key (none when nothing usable is stored)
StoredRows(raw) ==
    IF Truthy(raw) /\ ~ParseThrows(raw) /\ ParseValue(raw).k = "arr"
    THEN ParseValue(raw).rows ELSE <<>>
StoredAt(raw, id) ==
    {<<r.x, r.y>> : r \in {q \in RowSet(StoredRows(raw)) : q.id = id}}

\* C1: once a drag of a node has finished, the x,y stored for the node under
\* tol_nodes_v1 are the position it was dropped at, in that state and after
\* every later store operation, until the node is dragged again or removed
C1_DroppedPositionStaysStored ==
    \A id \in Ids :
        hist.dropped[id] # NoDrop => StoredAt(lsNodes, id) = {hist.dropped[id]}

BadText(raw) == raw.k \in {"absent", "empty", "garbage"}

\* C2: a store created over an absent or unparsable text raises no error and
\* holds the empty list, which list() returns (node list and edge list alike)
C2_LoadFallsBackToEmpty ==
    /\ (BadText(lsNodes) /\ ~hist.mutated) =>
          /\ nodes = JArr(<<>>)
          /\ call.op \in {"create", "list"} => ~call.threw
          /\ call.op = "list" => call.ret = JArr(<<>>)
    /\ BadText(lsEdges) =>
          /\ edges = JArr(<<>>)
          /\ call.op \in {"create", "edgeList"} => ~call.threw
          /\ call.op = "edgeList" => call.ret = JArr(<<>>)

C2_Witness ==
    /\ lsNodes = Garbage /\ lsEdges = Absent /\ ~hist.mutated
    /\ call.op = "list" /\ call.ret = JArr(<<>>)

\* C3: whatever text the node-list key holds at creation, a list of node rows
\* excepted, the store holds the empty list and no store call throws
C3_MalformedTextNeverThrows ==
    (~hist.mutated /\ ~(lsNodes.k = "json" /\ lsNodes.v.k = "arr")) =>
        /\ nodes = JArr(<<>>)
        /\ ~call.threw

\* C4: the difficulty of every node is an integer in 0..33, in every UINode and
\* in every per-node entry the program has written
StoredDifficultyInRange(raw) ==
    /\ Truthy(raw) /\ ~ParseThrows(raw)
    /\ ParseValue(raw).difficulty.k = "number"
    /\ IsIntIn0to33(ParseValue(raw).difficulty.n)
C4_DifficultyInRange ==
    /\ \A i \in insts : IsIntIn0to33(i.difficulty)
    /\ \A id \in hist.written :
          lsState[id] # Absent => StoredDifficultyInRange(lsState[id])

\* C5: a per-node entry exists only for ids that are in the node list
ListedIds(n) == {r.id : r \in RowSet(n.rows)}
C5_EntriesOnlyForListedNodes ==
    \A id \in Ids : lsState[id] # Absent => id \in ListedIds(nodes)

\* C6: the panel of a rendered node, once no build of it is pending, lists the
\* objectives of the node's stored entry: texts and done flags, in order
StoredObjectives(raw) ==
    IF Truthy(raw) /\ ~ParseThrows(raw) THEN ParseValue(raw).objectives ELSE <<>>
C6_PanelShowsStoredObjectives ==
    \A i \in Live(gen) :
        (i.panel.open /\ i.panel.builds = 0) =>
            i.panel.rows = RowsOf(StoredObjectives(lsState[i.id]))

\* C7: the rendered edges are, in list order, the edges of the edge store whose
\* two ends are both in the node map, one UIEdge each, built over the
\* current nodes; an edge with a missing end is not rendered
BothEndsRendered(e) == e.from \in LiveIds(insts, gen) /\ e.to \in LiveIds(insts, gen)
C7_RenderedEdgesJoinRenderedNodes ==
    LET kept == SelectSeq(edges.rows, BothEndsRendered) IN
    /\ Len(uiEdges) = Len(kept)
    /\ \A k \in 1..Len(uiEdges) :
          /\ uiEdges[k].from = kept[k].from /\ uiEdges[k].to = kept[k].to
          /\ uiEdges[k].kind = KindOf(kept[k])
          /\ uiEdges[k].gen = gen
          /\ BothEndsRendered(uiEdges[k])

\* an edge of the store lost an end to L and is not rendered
C7_Witness ==
    /\ gen > 1
    /\ \E k \in 1..Len(edges.rows) : ~BothEndsRendered(edges.rows[k])
    /\ uiEdges = <<>>

\* C8: whatever the difficulty field holds on submit, the result's difficulty is
\* an integer in 0..33: 0 for an empty field and for values below 0, 33 for
\* values above 33
C8_SubmitDifficultyClamped ==
    (call.op = "submit" /\ call.settled) =>
        /\ IsIntIn0to33(call.result.difficulty)
        /\ call.typed.diff.kind = "empty" => call.result.difficulty = Num(0)
        /\ (call.typed.diff.kind = "num" /\ call.typed.diff.t < 0) =>
              call.result.difficulty = Num(0)
        /\ (call.typed.diff.kind = "num" /\ call.typed.diff.t > DifficultyMax * 10) =>
              call.result.difficulty = Num(DifficultyMax * 10)

C8_Witness ==
    /\ call.op = "submit" /\ call.settled
    /\ call.typed.diff = DiffNum(400)
    /\ call.result.difficulty = Num(330)

AllWs(s) == \A i \in 1..Len(s) : IsWs(s[i])
NonWs(c) == ~IsWs(c)
RECURSIVE Flatten(_)
Flatten(ls) == IF ls = <<>> THEN <<>> ELSE Head(ls) \o Flatten(Tail(ls))
\* positions of a text that hold the first non-blank character of a line
LineStarts(text) ==
    {i \in 1..Len(text) :
        /\ ~IsWs(text[i])
        /\ \E j \in 0..(i - 1) :
              /\ j = 0 \/ text[j] = Nl
              /\ \A m \in (j + 1)..(i - 1) : text[m] = Sp}
Intact(d) == d.panel /\ d.form /\ d.style /\ d.listeners
Removed(d) == ~d.panel /\ ~d.form /\ ~d.style /\ ~d.listeners

C10_ModeChangeForgetsFirstEnd ==
    /\ [](edgeMode \in {EdgeOff, "linear", "curvy"})
    /\ [][KeyW => /\ edgeMode' = (IF edgeMode = "linear" THEN EdgeOff ELSE "linear")
                  /\ lastClickedId' = None]_vars
    /\ [][KeyQ => /\ edgeMode' = (IF edgeMode = "curvy" THEN EdgeOff ELSE "curvy")
                  /\ lastClickedId' = None]_vars
    /\ [][edges' # edges =>
             /\ hist.lastTap # None
             /\ edges' = JArr(Append(edges.rows,
                                     Edge(hist.lastTap, hist'.lastTap, edgeMode)))]_vars

\* a curvy edge was added by two taps, then W set the mode to linear and the
\* first end is forgotten
C10_Witness ==
    /\ Len(edges.rows) = 2 /\ edges.rows[2].kind = "curvy"
    /\ edgeMode = "linear" /\ lastClickedId = None

\* C11: the x,y of a node change only inside a drag: a drag starts only at a
\* pointer-down made while E is held, a pointer move moves only nodes that are
\* being dragged, and pointer-up or the release of E ends every drag
SameInstance(i, j) == i.gen = j.gen /\ i.id = j.id
C11_PositionChangesOnlyInDrag ==
    /\ [][\A i \in insts : \A j \in insts' :
             SameInstance(i, j) =>
                 /\ (j.dragging /\ ~i.dragging) => dragKey
                 /\ (<<j.x, j.y>> # <<i.x, i.y>>) => i.dragging]_vars
    /\ [][\A k \in 1..Len(nodes.rows) : \A m \in 1..Len(nodes'.rows) :
             (/\ nodes.rows[k].id = nodes'.rows[m].id
              /\ <<nodes.rows[k].x, nodes.rows[k].y>>
                     # <<nodes'.rows[m].x, nodes'.rows[m].y>>)
                 => \E i \in insts : i.id = nodes.rows[k].id /\ i.dragging]_vars
    /\ [][(PointerUp \/ KeyUpE) => \A j \in insts' : ~j.dragging]_vars

\* a node was dragged away from where it started and dropped, and the pointer
\* has moved on without it
C11_Witness ==
    \E i \in Live(gen) :
        /\ ~i.dragging /\ ~dragKey
        /\ hist.dropped[i.id] = <<304, 5>>
        /\ <<i.x, i.y>> = <<304, 5>>
        /\ cursor = <<0, 0>>
        /\ \E k \in 1..Len(nodes.rows) :
              nodes.rows[k].id = i.id /\ nodes.rows[k].x = 304

\* C12: Ctrl/Cmd+E yields the header line and then one line id,round(x),round(y)
\* per node of the node store, in list order, none left out or repeated, and
\* changes neither store nor any storage entry
NonEmptyLine(l) == l # <<>>
IsRounded(r, v) == v - 5 < 10 * r /\ 10 * r <= v + 5
C12_ExportListsEveryNode ==
    [][KeyCtrlE =>
          LET text == call'.ret
              body == SelectSeq(Tail(text), NonEmptyLine)
          IN /\ Head(text) = <<"node_id", "x", "y">>
             /\ Len(body) = Len(nodes.rows)
             /\ \A k \in 1..Len(body) :
                   /\ body[k][1] = nodes.rows[k].id
                   /\ IsRounded(body[k][2], nodes.rows[k].x)
                   /\ IsRounded(body[k][3], nodes.rows[k].y)
             /\ UNCHANGED <<lsNodes, lsEdges, lsState, nodes, edges>>]_vars

\* an export of two nodes, one of them at the fractional position (30.4, 0.5)
C12_Witness ==
    /\ call.op = "export"
    /\ Len(call.ret) = 3
    /\ call.ret[2] = <<1, 0, 0>>
    /\ call.ret[3] = <<2, 30, 1>>
    /\ Len(nodes.rows) = 2 /\ nodes.rows[2].y = 5

\* C13: once L has removed a node, no edge touching its id is in the persisted
\* edge list or rendered, in that state and in every later one (also after
\* other edges are added and after a new node gets the same id), unless the
\* user joins that id by an edge after the removal
Touches(e, id) == e.from = id \/ e.to = id
PersistedEdges == IF Truthy(lsEdges) THEN ParseValue(lsEdges).rows ELSE <<>>
C13_RemovedNodeHasNoEdges ==
    \A id \in hist.gone :
        /\ \A k \in 1..Len(PersistedEdges) : ~Touches(PersistedEdges[k], id)
        /\ \A k \in 1..Len(uiEdges) : ~Touches(uiEdges[k], id)

\* C14: after a confirmed Ctrl+C the node list and the edge list are empty in
\* the stores and in storage, no per-node entry of a listed node remains and
\* no edge is rendered
C14_ClearEmptiesStoresAndStorage ==
    [][KeyCtrlC =>
          /\ nodes'.rows = <<>> /\ edges'.rows = <<>>
          /\ lsNodes' = Json(JArr(<<>>)) /\ lsEdges' = Json(JArr(<<>>))
          /\ \A k \in 1..Len(nodes.rows) : lsState'[nodes.rows[k].id] = Absent
          /\ uiEdges' = <<>>]_vars

\* C15: after every rebuildNodes no panel opened by a discarded instance is in
\* the UI layer; after L deletes a node whose panel is open that panel is gone
Discarded == insts \ Live(gen)
C15_NoPanelOfDiscardedInstance ==
    \A i \in Discarded : ~i.panel.open

\* C16: once a window resize has been handled, every flow of the overlay has
\* the geometry given by the tree container's scale and position for the new
\* window size, and the flows are as many as before, with the same design-space ends
C16_FlowsFollowResize ==
    [][(\E win \in WindowSizes : WindowResize(win)) =>
          /\ Len(overlay'.flows) = Len(overlay.flows)
          /\ \A k \in 1..Len(overlay.flows) :
                LET f == overlay'.flows[k] IN
                   /\ f.from = overlay.flows[k].from
                   /\ f.to = overlay.flows[k].to
                   /\ f.a = DesignToScreen(overlay'.tree, f.from)
                   /\ f.b = DesignToScreen(overlay'.tree, f.to)]_vars

\* C17: while the edge mode is linear or curvy no tap on a node opens a panel;
\* while it is off a tap adds no edge and, the callback returning false, opens
\* the panel of the node tapped
C17_EdgeModeTapsOpenNoPanel ==
    /\ [][((\E i \in insts : TapEdgeMode(i) \/ TapOpensPanel(i)) /\ edgeMode # EdgeOff)
            => insts' = insts]_vars
    /\ [][\A i \in insts : ((TapEdgeMode(i) \/ TapOpensPanel(i)) /\ edgeMode = EdgeOff) =>
            /\ edges' = edges /\ lsEdges' = lsEdges /\ uiEdges' = uiEdges
            /\ lastClickedId' = lastClickedId
            /\ OpenPanel(i) \in insts']_vars

\* a node was tapped in an edge mode and no panel is open
C17_Witness ==
    /\ edgeMode # EdgeOff
    /\ lastClickedId # None
    /\ hist.lastTap = lastClickedId
    /\ Live(gen) # {}
    /\ \A i \in insts : ~i.panel.open

\* C18: a tap does not open the panel of a node that is being dragged or is in
\* the suppression window after a drag; the pointer-down that starts a drag
\* closes the node's panel and leaves no tooltip of the node in the UI layer
C18_NoPanelFromTapInDrag ==
    /\ [][\A i \in insts : \A j \in insts' :
             (SameInstance(i, j) /\ (i.dragging \/ i.suppress) /\ j.panel.open)
                 => j.panel = i.panel]_vars
    /\ [][\A i \in insts : \A j \in insts' :
             (SameInstance(i, j) /\ ~i.dragging /\ j.dragging)
                 => ~j.panel.open /\ ~j.tooltip /\ j.tips = 0]_vars

\* C19: a cancelled K dialog changes neither store nor any storage entry; a
\* submitted one appends exactly one node, with status Available, and writes
\* the entry of its id: the title entered, the difficulty clamped to 0..33 and
\* the objectives entered, in order, none of them done; nothing else is written
TextsOf(objectives) == [k \in 1..Len(objectives) |-> objectives[k].text]
C19_CreateWritesOneNode ==
    /\ [][\A n \in 1..MaxDialogs : KCancel(n) =>
             UNCHANGED <<lsNodes, lsEdges, lsState, nodes, edges>>]_vars
    /\ [][\A n \in 1..MaxDialogs : \A typed \in KeysTyped : KSubmit(n, typed, TRUE) =>
             LET row == nodes'.rows[Len(nodes'.rows)]
                 entry == lsState'[row.id].v
             IN /\ nodes'.rows = Append(nodes.rows, row)
                /\ lsNodes' = Json(nodes')
                /\ row.status = Available
                /\ \A k \in 1..Len(nodes.rows) : nodes.rows[k].id # row.id
                /\ \A id \in Ids \ {row.id} : lsState'[id] = lsState[id]
                /\ UNCHANGED <<lsEdges, edges>>
                /\ entry.status = Available
                /\ entry.title # <<>>
                /\ SelectSeq(entry.title, NonWs) = SelectSeq(typed.title, NonWs)
                /\ entry.difficulty.k = "number"
                /\ IsIntIn0to33(entry.difficulty.n)
                /\ (typed.diff.kind = "num" /\ typed.diff.t > DifficultyMax * 10) =>
                      entry.difficulty.n = Num(DifficultyMax * 10)
                /\ typed.diff.kind # "num" => entry.difficulty.n = Num(0)
                /\ Len(entry.objectives) = Cardinality(LineStarts(typed.text))
                /\ SelectSeq(Flatten(TextsOf(entry.objectives)), NonWs)
                      = SelectSeq(typed.text, NonWs)
                /\ \A k \in 1..Len(entry.objectives) : ~entry.objectives[k].done]_vars

\* a node created with two objectives, "b" before "a"
C19_Witness ==
    \E k \in 1..Len(nodes.rows) :
        LET id == nodes.rows[k].id IN
           /\ id \in hist.written
           /\ Truthy(lsState[id])
           /\ TextsOf(lsState[id].v.objectives) = << <<"b">>, <<"a">> >>
           /\ lsState[id].v.difficulty = JsonNumber(Num(0))
           /\ dialogs = <<>>

\* C20: the node K creates is stored at the design coordinates the cursor had
\* when K was pressed (where the dialog was attached), whatever pointer moves
\* happen while the dialog is open
C20_CreatedWhereKWasPressed ==
    [][\A n \in 1..MaxDialogs : \A typed \in KeysTyped : KSubmit(n, typed, TRUE) =>
          LET row == nodes'.rows[Len(nodes'.rows)]
          IN <<row.x, row.y>> = dialogs[n].attach]_vars

\* C21: after every completed user operation the node store's in-memory list
\* is the list persisted under tol_nodes_v1 and the edge store's in-memory
\* list is the list persisted under tol_edges_v1
C21_StoresEqualStorage ==
    /\ nodes.rows = StoredRows(lsNodes)
    /\ edges.rows = StoredRows(lsEdges)

\* C22: a toggle flips the done flag of exactly the objective toggled; the node
\* is Learned if it has objectives and all are done, otherwise a Locked node
\* becomes Available and any other status is kept; the node's storage entry
\* then holds its in-memory status and objectives
C22_ToggleFlipsOneAndSaves ==
    [][\A i \in insts : \A k \in 1..Len(i.objectives) : Toggle(i, k) =>
          \E j \in insts' :
              /\ SameInstance(i, j)
              /\ Len(j.objectives) = Len(i.objectives)
              /\ \A m \in 1..Len(i.objectives) :
                    /\ j.objectives[m].id = i.objectives[m].id
                    /\ j.objectives[m].text = i.objectives[m].text
                    /\ j.objectives[m].done = (IF m = k THEN ~i.objectives[m].done
                                               ELSE i.objectives[m].done)
              /\ (\A m \in 1..Len(j.objectives) : j.objectives[m].done) => j.status = Learned
              /\ (\E m \in 1..Len(j.objectives) : ~j.objectives[m].done) =>
                    j.status = (IF i.status = Locked THEN Available ELSE i.status)
              /\ Truthy(lsState'[i.id])
              /\ lsState'[i.id].v.status = j.status
              /\ lsState'[i.id].v.objectives = j.objectives]_vars

\* the Locked node has become Available by a toggle of its second objective
C22_Witness ==
    \E i \in Live(gen) :
        /\ i.status = Available
        /\ Len(i.objectives) = 2
        /\ ~i.objectives[1].done /\ i.objectives[2].done
        /\ i.id \in hist.written
        /\ lsState[i.id].v.status = Available
        /\ lsState[i.id].v.objectives = i.objectives

\* C23: a node never has more than one tooltip in the UI layer, and it has one
\* only while the pointer is over it, however pointerover, pointerout and the
\* start of a drag interleave with the completion of showTooltip()'s await
C23_OneTooltipWhileOver ==
    \A i \in Live(gen) : i.tips <= 1 /\ (i.tips > 0 => i.over)

\* C24: at most one panel of a node is in the UI layer, and it is the one the
\* node's rendered instance refers to
C24_OnePanelPerNode ==
    \A i \in insts : i.panel.open =>
        /\ i \in Live(gen)
        /\ \A j \in insts : (j.id = i.id /\ j.panel.open) => j = i

====
